---- MODULE Spec2Model ----
(***************************************************************************)
(* The LaTeX renderer MCP server of src/src/server.py: three tools         *)
(* (render_latex, render_solution, check_latex_syntax) around the two      *)
(* render helpers _render_latex_to_png and _render_multiblock.            *)
(*                                                                         *)
(* A Python string is a sequence of units.  A unit is one character        *)
(* (" ", "\n", "$", "#", "x", "{"), a LaTeX command whose letters no test  *)
(* of the code looks into ("\\frac", "\\alpha", "\\usepackage"), or LONG,  *)
(* a run of MAX_LATEX_LENGTH letters x.  CharLen gives a unit's length in  *)
(* characters, so len() is exact.                                          *)
(*                                                                         *)
(* The typesetting engine (matplotlib mathtext, reached through savefig    *)
(* and tight_layout) is outside the repository.  It is a deterministic but *)
(* unknown function of the text it is given: the variable mathtext records *)
(* the engine's verdict on every text it has been asked about, and a text  *)
(* asked about for the first time gets either verdict.                     *)
(***************************************************************************)
EXTENDS Integers, Sequences, FiniteSets, TLC

\* ---------------------------------------------------------------- bounds
MaxLen == 3
MaxSteps == 2
MaxCalls == 3
MaxPayload == 2

\* ------------------------------------------------------ program constants
DEFAULT_DPI == 150
DEFAULT_FONT_SIZE == 14
DEFAULT_BG_COLOR == "white"
DEFAULT_TEXT_COLOR == "black"
MAX_LATEX_LENGTH == 10000

\* ------------------------------------------------------- Python strings
LONG == "x..x"

Whitespace == {" ", "\n"}

CharLen(u) == IF u = LONG THEN MAX_LATEX_LENGTH ELSE Len(u)

RECURSIVE PyLen(_)
PyLen(s) == IF s = <<>> THEN 0 ELSE CharLen(Head(s)) + PyLen(Tail(s))

RECURSIVE lstrip(_)
lstrip(s) == IF s # <<>> /\ Head(s) \in Whitespace THEN lstrip(Tail(s)) ELSE s

RECURSIVE rstrip(_)
rstrip(s) ==
    IF s # <<>> /\ s[Len(s)] \in Whitespace
    THEN rstrip(SubSeq(s, 1, Len(s) - 1))
    ELSE s

strip(s) == rstrip(lstrip(s))

startswith(s, p) == Len(s) >= Len(p) /\ SubSeq(s, 1, Len(p)) = p

endswith(s, p) == Len(s) >= Len(p) /\ SubSeq(s, Len(s) - Len(p) + 1, Len(s)) = p

RECURSIVE split(_)
split(s) ==
    IF \A i \in 1..Len(s) : s[i] # "\n"
    THEN <<s>>
    ELSE LET i == CHOOSE k \in 1..Len(s) :
                      s[k] = "\n" /\ \A j \in 1..(k - 1) : s[j] # "\n"
         IN  <<SubSeq(s, 1, i - 1)>> \o split(SubSeq(s, i + 1, Len(s)))

RECURSIVE join(_)
join(ls) ==
    IF Len(ls) = 1 THEN ls[1] ELSE ls[1] \o <<"\n">> \o join(Tail(ls))

count(s, u) == Cardinality({i \in 1..Len(s) : s[i] = u})

contains(s, u) == \E i \in 1..Len(s) : s[i] = u

\* ------------------------------------------------------------- helpers
LIGHT == "light"
DARK == "dark"
Theme == {LIGHT, DARK}

_apply_theme(theme) ==
    IF theme = DARK
    THEN [bg_color |-> "#1e1e2e", text_color |-> "#cdd6f4"]
    ELSE [bg_color |-> "white", text_color |-> "black"]

_strip_outer_delimiters(latex0) ==
    LET latex == strip(latex0)
    IN  IF startswith(latex, <<"$", "$">>) /\ endswith(latex, <<"$", "$">>)
        THEN strip(SubSeq(latex, 3, Len(latex) - 2))
        ELSE IF startswith(latex, <<"$">>) /\ endswith(latex, <<"$">>)
                /\ PyLen(latex) > 2
        THEN strip(SubSeq(latex, 2, Len(latex) - 1))
        ELSE latex

\* The text _render_latex_to_png hands to fig.text: every non-blank line
\* that is no '#' comment is stripped of its outer delimiters and wrapped
\* in $...$; the other lines go through unchanged.
rendered_line(line) ==
    IF strip(line) # <<>> /\ ~startswith(strip(line), <<"#">>)
    THEN <<"$">> \o _strip_outer_delimiters(strip(line)) \o <<"$">>
    ELSE line

rendered_text(latex) ==
    LET lines == split(strip(latex))
    IN  join([i \in 1..Len(lines) |-> rendered_line(lines[i])])

\* ------------------------------------------------------------ base64
B64Alphabet ==
    << "A","B","C","D","E","F","G","H","I","J","K","L","M","N","O","P",
       "Q","R","S","T","U","V","W","X","Y","Z","a","b","c","d","e","f",
       "g","h","i","j","k","l","m","n","o","p","q","r","s","t","u","v",
       "w","x","y","z","0","1","2","3","4","5","6","7","8","9","+","/" >>

B64Char(n) == B64Alphabet[(n % 64) + 1]

\* base64.b64encode(png_bytes).decode("utf-8"): three bytes make four
\* characters; a last group of one or two bytes is padded with '='.
RECURSIVE b64encode(_)
b64encode(bytes) ==
    IF Len(bytes) = 0 THEN <<>>
    ELSE IF Len(bytes) = 1 THEN
        LET n == bytes[1] * 65536
        IN  <<B64Char(n \div 262144), B64Char(n \div 4096), "=", "=">>
    ELSE IF Len(bytes) = 2 THEN
        LET n == bytes[1] * 65536 + bytes[2] * 256
        IN  <<B64Char(n \div 262144), B64Char(n \div 4096), B64Char(n \div 64), "=">>
    ELSE
        LET n == bytes[1] * 65536 + bytes[2] * 256 + bytes[3]
        IN  <<B64Char(n \div 262144), B64Char(n \div 4096), B64Char(n \div 64), B64Char(n)>>
            \o b64encode(SubSeq(bytes, 4, Len(bytes)))

DataUriPrefix == <<"data:image/png;base64,">>

\* Mutant: the data URI without its prefix.
_png_to_base64_uri_no_prefix(png_bytes) == b64encode(png_bytes)

_png_to_base64_uri(png_bytes) == DataUriPrefix \o b64encode(png_bytes)

_png_to_base64(png_bytes) == b64encode(png_bytes)

\* round(len(png_bytes) / 1024, 1), in tenths of a KB (ties to even).
size_kb(png_bytes) ==
    LET q == (Len(png_bytes) * 10) \div 1024
        r == (Len(png_bytes) * 10) % 1024
    IN  IF r > 512 \/ (r = 512 /\ q % 2 = 1) THEN q + 1 ELSE q

\* -------------------------------------------------------- JSON values
JNull == [t |-> "null", v |-> <<>>]
JStr(s) == [t |-> "str", v |-> s]
JInt == [t |-> "int", v |-> <<>>]

\* ---------------------------------------------- what savefig writes
\* A PNG file starts with the 8-byte signature; of what follows the model
\* keeps the first bytes of the IHDR chunk, at most MaxPayload of them.
PngSignature == <<137, 80, 78, 71, 13, 10, 26, 10>>
PngChunk == <<0, 0, 0, 13, 73, 72, 68, 82, 0, 0>>
Images == {PngSignature \o SubSeq(PngChunk, 1, k) : k \in 0..MaxPayload}

\* ------------------------------------------------------ render helpers
\* verdict[t]: does the engine typeset text t; image: the bytes savefig
\* writes when it does; figs: the open figures of the pyplot registry.
\* plt.figure registers a figure; plt.close(fig) is reached only when
\* savefig returns.
\* Mutant: plt.figure(num=1) in place of plt.figure(): a figure a failed
\* call left open is drawn on again, with the text that failed.
_render_latex_to_png_reused_figure(latex, dpi, font_size, bg_color, text_color, verdict, image, figs) ==
    LET text == rendered_text(latex)
    IN  IF figs = 0 /\ verdict[text]
        THEN [ran |-> TRUE, raised |-> FALSE, exc |-> "", png |-> image, figs |-> 0,
              rows |-> <<[text |-> text, color |-> text_color]>>]
        ELSE [ran |-> TRUE, raised |-> TRUE, exc |-> "ParseException", png |-> <<>>,
              figs |-> 1, rows |-> <<>>]

_render_latex_to_png(latex, dpi, font_size, bg_color, text_color, verdict, image, figs) ==
    LET text == rendered_text(latex)
        opened == figs + 1
    IN  IF verdict[text]
        THEN [ran |-> TRUE, raised |-> FALSE, exc |-> "", png |-> image, figs |-> opened - 1,
              rows |-> <<[text |-> text, color |-> text_color]>>]
        ELSE [ran |-> TRUE, raised |-> TRUE, exc |-> "ParseException", png |-> <<>>, figs |-> opened,
              rows |-> <<>>]

\* block.get("label", "") and block.get("latex", "")
block_label(block) == IF "label" \in DOMAIN block THEN block.label ELSE ""
block_latex(block) == IF "latex" \in DOMAIN block THEN block.latex ELSE JStr(<<>>)

full_text(block) ==
    LET label == block_label(block)
        stripped == _strip_outer_delimiters(block_latex(block).v)
    IN  IF label # ""
        THEN <<"\\mathbf{", label, "}", "\n", "$">> \o stripped \o <<"$">>
        ELSE <<"$">> \o stripped \o <<"$">>

\* plt.subplots registers the figure; _strip_outer_delimiters raises on a
\* latex value that is no string; tight_layout and savefig typeset every
\* row; plt.close(fig) is reached only when all of that returns.
_render_multiblock(blocks, dpi, font_size, bg_color, text_color, verdict, image, figs) ==
    LET n == Len(blocks)
        opened == figs + 1
    IN  IF \E i \in 1..n : block_latex(blocks[i]).t # "str"
        THEN [ran |-> TRUE, raised |-> TRUE, exc |-> "AttributeError", png |-> <<>>, figs |-> opened,
              rows |-> <<>>]
        ELSE IF \E i \in 1..n : ~verdict[full_text(blocks[i])]
        THEN [ran |-> TRUE, raised |-> TRUE, exc |-> "ParseException", png |-> <<>>, figs |-> opened,
              rows |-> <<>>]
        ELSE [ran |-> TRUE, raised |-> FALSE, exc |-> "", png |-> image, figs |-> opened - 1,
              rows |-> [i \in 1..n |->
                          [text |-> full_text(blocks[i]), color |-> text_color]]]

\* The render helper was not called.
NotRun == [ran |-> FALSE, raised |-> FALSE, exc |-> "", png |-> <<>>, figs |-> 0,
           rows |-> <<>>]

\* -------------------------------------------------------- input models
\* RenderLatexInput: str_strip_whitespace, min_length, max_length, the
\* ranges of dpi and font_size, and validate_latex.
RenderLatexInput(args) ==
    LET latex == strip(args.latex)
    IN  [ok |-> /\ PyLen(latex) >= 1
                /\ PyLen(latex) <= MAX_LATEX_LENGTH
                /\ args.theme \in Theme
                /\ args.dpi >= 72 /\ args.dpi <= 300
                /\ args.font_size >= 8 /\ args.font_size <= 32
                /\ strip(latex) # <<>>,
         params |-> [latex |-> latex, theme |-> args.theme, dpi |-> args.dpi,
                     font_size |-> args.font_size]]

\* RenderSolutionInput: 1 to 20 steps, and validate_steps (every step has
\* a 'latex' key).  The strings are not stripped.
RenderSolutionInput(args) ==
    [ok |-> /\ Len(args.steps) >= 1
            /\ Len(args.steps) <= 20
            /\ args.theme \in Theme
            /\ args.dpi >= 72 /\ args.dpi <= 300
            /\ args.font_size >= 8 /\ args.font_size <= 32
            /\ \A i \in 1..Len(args.steps) : "latex" \in DOMAIN args.steps[i],
     params |-> args]

\* ---------------------------------------------------------------- tools
\* What a tool call gives back: the JSON object the tool returns, an
\* exception leaving the tool, or the framework's rejection of the input.
Returned(body) == [kind |-> "returned", body |-> body]
Propagated(exc) == [kind |-> "exception", body |-> [exception |-> exc]]
SchemaError == [kind |-> "schema_error", body |-> [exception |-> "ValidationError"]]

\* Mutant: the failure response without its message.
render_latex_bare_failure(params, verdict, image, figs) ==
    LET colors == _apply_theme(params.theme)
        r == _render_latex_to_png(params.latex, params.dpi, params.font_size,
                                  colors.bg_color, colors.text_color,
                                  verdict, image, figs)
    IN  IF ~r.raised
        THEN [render |-> r,
              out |-> Returned([success |-> TRUE,
                                data_uri |-> JStr(_png_to_base64_uri(r.png)),
                                base64 |-> JStr(_png_to_base64(r.png)),
                                width_hint |-> "600px",
                                size_kb |-> size_kb(r.png),
                                message |-> "LaTeX rendered successfully."])]
        ELSE [render |-> r,
              out |-> Returned([success |-> FALSE, data_uri |-> JNull, base64 |-> JNull])]

render_latex(params, verdict, image, figs) ==
    LET colors == _apply_theme(params.theme)
        r == _render_latex_to_png(params.latex, params.dpi, params.font_size,
                                  colors.bg_color, colors.text_color,
                                  verdict, image, figs)
    IN  IF ~r.raised
        THEN [render |-> r,
              out |-> Returned([success |-> TRUE,
                                data_uri |-> JStr(_png_to_base64_uri(r.png)),
                                base64 |-> JStr(_png_to_base64(r.png)),
                                width_hint |-> "600px",
                                size_kb |-> size_kb(r.png),
                                message |-> "LaTeX rendered successfully."])]
        ELSE [render |-> r,
              out |-> Returned([success |-> FALSE,
                                data_uri |-> JNull,
                                base64 |-> JNull,
                                message |-> "Rendering failed: " \o r.exc
                                            \o ". Check that your LaTeX syntax is valid."])]

\* Mutant: no try/except around the render.
render_solution_uncaught(params, verdict, image, figs) ==
    LET colors == _apply_theme(params.theme)
        r == _render_multiblock(params.steps, params.dpi, params.font_size,
                                colors.bg_color, colors.text_color,
                                verdict, image, figs)
    IN  IF ~r.raised
        THEN [render |-> r,
              out |-> Returned([success |-> TRUE,
                                data_uri |-> JStr(_png_to_base64_uri(r.png)),
                                base64 |-> JStr(_png_to_base64(r.png)),
                                step_count |-> Len(params.steps),
                                size_kb |-> size_kb(r.png),
                                message |-> "Solution rendered."])]
        ELSE [render |-> r, out |-> Propagated(r.exc)]

render_solution(params, verdict, image, figs) ==
    LET colors == _apply_theme(params.theme)
        r == _render_multiblock(params.steps, params.dpi, params.font_size,
                                colors.bg_color, colors.text_color,
                                verdict, image, figs)
    IN  IF ~r.raised
        THEN [render |-> r,
              out |-> Returned([success |-> TRUE,
                                data_uri |-> JStr(_png_to_base64_uri(r.png)),
                                base64 |-> JStr(_png_to_base64(r.png)),
                                step_count |-> Len(params.steps),
                                size_kb |-> size_kb(r.png),
                                message |-> "Solution rendered."])]
        ELSE [render |-> r,
              out |-> Returned([success |-> FALSE,
                                data_uri |-> JNull,
                                base64 |-> JNull,
                                step_count |-> 0,
                                message |-> "Rendering failed: " \o r.exc
                                            \o ". Verify each step has a valid 'latex' field."])]

\* The unsupported environments, in the order the loop visits them.
unsupported == <<"\\begin{tikzpicture}", "\\usepackage", "\\documentclass", "\\chemfig">>

GreekCommands == {"\\alpha", "\\beta", "\\gamma", "\\delta", "\\epsilon", "\\theta",
                  "\\lambda", "\\mu", "\\pi", "\\sigma", "\\omega"}

RecognizedCommands == {"\\frac", "\\sqrt", "\\int", "\\sum", "\\prod", "\\lim", "\\text"}

\* The units that hold a backslash, an opening brace, or start with a
\* word character.
BackslashUnits == GreekCommands \cup RecognizedCommands
                  \cup {unsupported[i] : i \in 1..Len(unsupported)}
BraceUnits == {"{", "\\begin{tikzpicture}"}
WordUnits == {"x", LONG}

\* re.search(r"\\(alpha|...|omega)\b", latex): a Greek command that is not
\* followed by a word character.
greek_match(latex) ==
    \E i \in 1..Len(latex) :
        /\ latex[i] \in GreekCommands
        /\ (i = Len(latex) \/ latex[i + 1] \notin WordUnits)

\* Mutant: the check of the '$' count is missing.
check_errors_no_dollar_count(latex) ==
    (IF PyLen(latex) > MAX_LATEX_LENGTH THEN <<"Expression too long.">> ELSE <<>>)
    \o [i \in 1..Len(SelectSeq(unsupported, LAMBDA env : contains(latex, env))) |->
            "Not supported by matplotlib mathtext."]

check_errors(latex) ==
    (IF PyLen(latex) > MAX_LATEX_LENGTH THEN <<"Expression too long.">> ELSE <<>>)
    \o (IF count(latex, "$") % 2 # 0 THEN <<"Unbalanced $ delimiters.">> ELSE <<>>)
    \o [i \in 1..Len(SelectSeq(unsupported, LAMBDA env : contains(latex, env))) |->
            "Not supported by matplotlib mathtext."]

check_warnings(latex) ==
    (IF contains(latex, "\\frac") /\ ~\E i \in 1..Len(latex) : latex[i] \in BraceUnits
     THEN <<"\\frac requires two arguments in braces.">> ELSE <<>>)
    \o (IF greek_match(latex) THEN <<>>
        ELSE IF (\E i \in 1..Len(latex) : latex[i] \in BackslashUnits)
                /\ ~\E i \in 1..Len(latex) : latex[i] \in RecognizedCommands
        THEN <<"Backslash detected but no recognized LaTeX commands found.">>
        ELSE <<>>)

\* Mutant: valid is computed before the test render, and a failed render
\* only appends its error.
check_latex_syntax_valid_before_render(latex, verdict, image, figs) ==
    IF latex = <<>> \/ strip(latex) = <<>>
    THEN [render |-> NotRun,
          out |-> Returned([valid |-> FALSE, warnings |-> <<>>,
                            errors |-> <<"Empty expression.">>,
                            suggestion |-> JNull])]
    ELSE LET warnings == check_warnings(latex)
             errors == check_errors(latex)
             r == _render_latex_to_png(latex, 72, 12, DEFAULT_BG_COLOR,
                                       DEFAULT_TEXT_COLOR, verdict, image, figs)
         IN  [render |-> r,
              out |-> Returned([valid |-> Len(errors) = 0,
                                warnings |-> warnings,
                                errors |-> IF r.raised
                                           THEN errors \o <<"Render test failed: " \o r.exc>>
                                           ELSE errors,
                                suggestion |-> JNull])]

check_latex_syntax(latex, verdict, image, figs) ==
    IF latex = <<>> \/ strip(latex) = <<>>
    THEN [render |-> NotRun,
          out |-> Returned([valid |-> FALSE, warnings |-> <<>>,
                            errors |-> <<"Empty expression.">>,
                            suggestion |-> JNull])]
    ELSE LET warnings == check_warnings(latex)
             errors == check_errors(latex)
             suggestion == JNull
             r == _render_latex_to_png(latex, 72, 12, DEFAULT_BG_COLOR,
                                       DEFAULT_TEXT_COLOR, verdict, image, figs)
         IN  IF ~r.raised
             THEN [render |-> r,
                   out |-> Returned([valid |-> Len(errors) = 0,
                                     warnings |-> warnings,
                                     errors |-> errors,
                                     suggestion |-> suggestion])]
             ELSE [render |-> r,
                   out |-> Returned([valid |-> FALSE,
                                     warnings |-> warnings,
                                     errors |-> errors \o <<"Render test failed: " \o r.exc>>,
                                     suggestion |-> suggestion])]

\* ------------------------------------------------------------- state
VARIABLES
    openFigures,   \* figures in the pyplot registry (plt.figure / plt.close)
    mathtext,      \* the engine's verdicts so far: text -> BOOLEAN
    call,          \* the last tool call: [tool, args]
    response,      \* what the last tool call gave back
    render,        \* what the render helper did in the last call
    log,           \* every tool call so far with its flag
    calls          \* number of tool calls so far

vars == <<openFigures, mathtext, call, response, render, log, calls>>

NoCall == [tool |-> "none", args |-> [latex |-> <<>>]]

Init ==
    /\ openFigures = 0
    /\ mathtext = [t \in {} |-> TRUE]
    /\ call = NoCall
    /\ response = [kind |-> "none", body |-> [exception |-> ""]]
    /\ render = NotRun
    /\ log = {}
    /\ calls = 0

\* The flag of a response: success, or valid for check_latex_syntax.
Flag(out) ==
    IF out.kind # "returned" THEN "none"
    ELSE IF "success" \in DOMAIN out.body
    THEN (IF out.body.success THEN "true" ELSE "false")
    ELSE IF "valid" \in DOMAIN out.body
    THEN (IF out.body.valid THEN "true" ELSE "false")
    ELSE "none"

\* The engine answers for the texts of one call: as before for a text it
\* has seen, either way for a new one.
Typesets(texts, verdict) ==
    /\ verdict \in [texts -> BOOLEAN]
    /\ \A t \in texts \cap DOMAIN mathtext : verdict[t] = mathtext[t]

Remember(verdict) ==
    [t \in DOMAIN mathtext \cup DOMAIN verdict |->
        IF t \in DOMAIN verdict THEN verdict[t] ELSE mathtext[t]]

\* A log entry; again says that the same tool was called with the same
\* arguments before.
Entry(tool, args, flag) ==
    [tool |-> tool, args |-> args, flag |-> flag,
     again |-> \E e \in log : e.tool = tool /\ e.args = args]

Finish(tool, args, res, verdict) ==
    /\ response' = res.out
    /\ render' = res.render
    /\ openFigures' = IF res.render.ran THEN res.render.figs ELSE openFigures
    /\ mathtext' = Remember(verdict)
    /\ call' = [tool |-> tool, args |-> args]
    /\ log' = log \cup {Entry(tool, args, Flag(res.out))}
    /\ calls' = calls + 1

\* The framework rejects the input; the tool is not run.
Reject(tool, args) ==
    /\ response' = SchemaError
    /\ render' = NotRun
    /\ call' = [tool |-> tool, args |-> args]
    /\ log' = log \cup {Entry(tool, args, "none")}
    /\ calls' = calls + 1
    /\ UNCHANGED <<openFigures, mathtext>>

RenderLatex(args) ==
    LET input == RenderLatexInput(args)
    IN  IF ~input.ok THEN Reject("render_latex", args)
        ELSE \E image \in Images :
             \E verdict \in [{rendered_text(input.params.latex)} -> BOOLEAN] :
                /\ Typesets(DOMAIN verdict, verdict)
                /\ Finish("render_latex", args,
                          render_latex(input.params, verdict, image, openFigures),
                          verdict)

SolutionTexts(steps) ==
    IF \E i \in 1..Len(steps) : block_latex(steps[i]).t # "str"
    THEN {}
    ELSE {full_text(steps[i]) : i \in 1..Len(steps)}

RenderSolution(args) ==
    LET input == RenderSolutionInput(args)
    IN  IF ~input.ok THEN Reject("render_solution", args)
        ELSE \E image \in Images :
             \E verdict \in [SolutionTexts(args.steps) -> BOOLEAN] :
                /\ Typesets(DOMAIN verdict, verdict)
                /\ Finish("render_solution", args,
                          render_solution(input.params, verdict, image, openFigures),
                          verdict)

CheckTexts(latex) == IF strip(latex) = <<>> THEN {} ELSE {rendered_text(latex)}

CheckLatexSyntax(latex) ==
    \E image \in Images :
    \E verdict \in [CheckTexts(latex) -> BOOLEAN] :
        /\ Typesets(DOMAIN verdict, verdict)
        /\ Finish("check_latex_syntax", [latex |-> latex],
                  check_latex_syntax(latex, verdict, image, openFigures),
                  verdict)

\* ------------------------------------------------------------- inputs
Alphabet == {" ", "\n", "$", "$$", "#", "x", "{", "\\frac", "\\alpha", "\\usepackage", LONG}

RECURSIVE Flatten(_)
Flatten(tokens) ==
    IF tokens = <<>> THEN <<>>
    ELSE (IF Head(tokens) = "$$" THEN <<"$", "$">> ELSE <<Head(tokens)>>)
         \o Flatten(Tail(tokens))

Expressions == {Flatten(ts) : ts \in UNION {[1..k -> Alphabet] : k \in 0..MaxLen}}

Options ==
    { [theme |-> LIGHT, dpi |-> DEFAULT_DPI, font_size |-> DEFAULT_FONT_SIZE],
      [theme |-> DARK, dpi |-> 72, font_size |-> 8],
      [theme |-> LIGHT, dpi |-> 300, font_size |-> 32],
      [theme |-> LIGHT, dpi |-> 301, font_size |-> DEFAULT_FONT_SIZE],
      [theme |-> DARK, dpi |-> DEFAULT_DPI, font_size |-> 7] }

StepChoices ==
    { [latex |-> JStr(<<"x">>)],
      [label |-> "Answer", latex |-> JStr(<<"$", "x", "$">>)],
      [label |-> "", latex |-> JStr(<<"\\frac">>)],
      [label |-> "Step", latex |-> JInt],
      [label |-> "Step"] }

Solutions == UNION {[1..k -> StepChoices] : k \in 0..MaxSteps}

LatexArgs(exprs, options) ==
    {[latex |-> e, theme |-> o.theme, dpi |-> o.dpi, font_size |-> o.font_size] :
        e \in exprs, o \in options}

SolutionArgs(solutions, options) ==
    {[steps |-> st, theme |-> o.theme, dpi |-> o.dpi, font_size |-> o.font_size] :
        st \in solutions, o \in options}

\* The inputs of the many-call specification.
SampleExprs == {<<"x">>, <<" ", "x">>, <<"$", "x", "$">>, <<"\\frac">>, <<"$">>}
SampleOptions ==
    { [theme |-> LIGHT, dpi |-> DEFAULT_DPI, font_size |-> DEFAULT_FONT_SIZE],
      [theme |-> DARK, dpi |-> 72, font_size |-> 8] }
SampleSolutions ==
    { <<[latex |-> JStr(<<"x">>)]>>,
      <<[label |-> "Answer", latex |-> JStr(<<"$", "x", "$">>)],
        [label |-> "", latex |-> JStr(<<"\\frac">>)]>>,
      <<[label |-> "Step", latex |-> JInt]>> }

\* ------------------------------------------------------ specifications
\* Spec: up to MaxCalls tool calls, one after the other, in one process.
DefaultOptions ==
    {[theme |-> LIGHT, dpi |-> DEFAULT_DPI, font_size |-> DEFAULT_FONT_SIZE]}

RenderLatexCall ==
    /\ calls < MaxCalls
    /\ \E args \in LatexArgs(SampleExprs, SampleOptions) : RenderLatex(args)

RenderSolutionCall ==
    /\ calls < MaxCalls
    /\ \E args \in SolutionArgs(SampleSolutions, DefaultOptions) : RenderSolution(args)

CheckLatexSyntaxCall ==
    /\ calls < MaxCalls
    /\ \E latex \in SampleExprs : CheckLatexSyntax(latex)

Next == RenderLatexCall \/ RenderSolutionCall \/ CheckLatexSyntaxCall

Spec == Init /\ [][Next]_vars

\* SpecCall: one tool call on any input of the bounded input sets.
RenderLatexOnce ==
    /\ calls = 0
    /\ \E args \in LatexArgs(Expressions, Options) : RenderLatex(args)

RenderSolutionOnce ==
    /\ calls = 0
    /\ \E args \in SolutionArgs(Solutions, Options) : RenderSolution(args)

CheckLatexSyntaxOnce ==
    /\ calls = 0
    /\ \E latex \in Expressions : CheckLatexSyntax(latex)

NextCall == RenderLatexOnce \/ RenderSolutionOnce \/ CheckLatexSyntaxOnce

SpecCall == Init /\ [][NextCall]_vars
\* ---------------------------------------------------------------- claims
RenderTools == {"render_latex", "render_solution"}
ToolRan == call.tool # "none" /\ response.kind # "schema_error"
FracWarning == "\\frac requires two arguments in braces."

\* C1: for every schema-valid input of the three tools the call returns a
\* response value, never an exception; when the render routine failed the
\* response is a structured failure: success = false with data_uri = null
\* and base64 = null for render_latex and render_solution, valid = false
\* with a non-empty errors list for check_latex_syntax (for which oversized
\* input is such a failure too).
C1_FailureIsStructured ==
    ToolRan =>
        /\ response.kind = "returned"
        /\ (call.tool \in RenderTools /\ render.raised) =>
                /\ response.body.success = FALSE
                /\ response.body.data_uri = JNull
                /\ response.body.base64 = JNull
        /\ (call.tool = "check_latex_syntax"
            /\ (render.raised \/ PyLen(call.args.latex) > MAX_LATEX_LENGTH)) =>
                /\ response.body.valid = FALSE
                /\ response.body.errors # <<>>

\* A render_solution call whose step has a latex value that is no string:
\* the AttributeError is reported as a failure.
C1_Witness ==
    /\ call.tool = "render_solution"
    /\ render.raised /\ render.exc = "AttributeError"
    /\ response.kind = "returned"
    /\ response.body.success = FALSE

\* C2: no figure stays open between calls: the pyplot registry is empty
\* whenever a tool call has returned, also after a failed render.
C2_NoOpenFigures == openFigures = 0

\* C3, as stated: every tool's response, on every path, carries a success
\* flag and a message.
C3_EveryResponseHasSuccessAndMessage ==
    ToolRan => {"success", "message"} \subseteq DOMAIN response.body

\* C3, amended: every response of render_latex and render_solution carries
\* a boolean success flag and a non-empty message; a response of
\* check_latex_syntax carries neither, its keys are valid, warnings, errors
\* and suggestion.
C3_RenderResponsesHaveSuccessAndMessage ==
    ToolRan =>
        /\ call.tool \in RenderTools =>
                /\ {"success", "message", "data_uri", "base64"} \subseteq DOMAIN response.body
                /\ response.body.success \in BOOLEAN
                /\ response.body.message # ""
        /\ call.tool = "check_latex_syntax" =>
                DOMAIN response.body = {"valid", "warnings", "errors", "suggestion"}

\* A failed render_latex call: the failure response has its message.
C3_Witness ==
    /\ call.tool = "render_latex"
    /\ render.raised
    /\ response.kind = "returned"
    /\ response.body.success = FALSE
    /\ response.body.message # ""

\* C4: two calls of the same tool with the same arguments have the same
\* flag, whatever was called before or between them.
C4_SameCallSameFlag ==
    \A a \in log : \A b \in log :
        (a.tool = b.tool /\ a.args = b.args) => a.flag = b.flag

\* The third call repeats an earlier successful render_latex call, and the
\* other call, before or between the two, failed and left a figure open.
C4_Witness ==
    /\ calls = 3
    /\ call.tool = "render_latex"
    /\ openFigures > 0
    /\ \E a \in log :
          /\ a.tool = call.tool /\ a.args = call.args
          /\ a.again /\ a.flag = "true"
    /\ \E b \in log : b.flag = "false" /\ (b.tool # call.tool \/ b.args # call.args)

\* C5: when the render routine accepts the input, render_latex and
\* render_solution return success = true, the image has at least one byte,
\* base64 is a non-empty string and data_uri is the prefix
\* 'data:image/png;base64,' followed by that base64 string.
C5_ValidInputGivesImage ==
    (ToolRan /\ call.tool \in RenderTools /\ ~render.raised) =>
        /\ response.kind = "returned"
        /\ response.body.success = TRUE
        /\ Len(render.png) > 0
        /\ response.body.base64.t = "str"
        /\ Len(response.body.base64.v) > 0
        /\ response.body.data_uri.t = "str"
        /\ response.body.data_uri.v = <<"data:image/png;base64,">> \o response.body.base64.v

\* A two-step solution rendered in the dark theme.
C5_Witness ==
    /\ call.tool = "render_solution"
    /\ call.args.theme = DARK
    /\ Len(call.args.steps) = 2
    /\ ~render.raised
    /\ response.body.success = TRUE
    /\ Len(response.body.base64.v) > Len(PngSignature)

\* C6: a rendered solution of N steps has N rows, row i showing step i,
\* and for N > 1 the last row is drawn in a color that differs from the
\* color of every row before it.
C6_FinalRowHighlighted ==
    (ToolRan /\ call.tool = "render_solution" /\ ~render.raised) =>
        LET n == Len(call.args.steps)
        IN  /\ Len(render.rows) = n
            /\ \A i \in 1..n : render.rows[i].text = full_text(call.args.steps[i])
            /\ \A i \in 1..(n - 1) : render.rows[n].color # render.rows[i].color

\* C7: when check_latex_syntax said valid = true for an expression, every
\* render_latex call on that expression (theme light or dark, dpi in
\* 72..300, font_size in 8..32) has success = true.
C7_ValidImpliesRenders ==
    \A c \in log : \A r \in log :
        ( /\ c.tool = "check_latex_syntax" /\ c.flag = "true"
          /\ r.tool = "render_latex" /\ r.args.latex = c.args.latex
          /\ r.args.theme \in Theme
          /\ r.args.dpi \in 72..300 /\ r.args.font_size \in 8..32 )
        => r.flag = "true"

\* ' x' was checked valid and rendered in the dark theme at 72 dpi.
C7_Witness ==
    \E c \in log : \E r \in log :
        /\ c.tool = "check_latex_syntax" /\ c.flag = "true"
        /\ c.args.latex = <<" ", "x">>
        /\ r.tool = "render_latex" /\ r.args.latex = c.args.latex
        /\ r.args.theme = DARK /\ r.args.dpi = 72
        /\ r.flag = "true"

\* C8: when check_latex_syntax warns that \frac requires two brace
\* arguments, suggestion is a string (the corrected LaTeX), not null.
C8_SuggestionForKnownFix ==
    ( /\ ToolRan /\ call.tool = "check_latex_syntax"
      /\ \E i \in 1..Len(response.body.warnings) : response.body.warnings[i] = FracWarning )
    => response.body.suggestion.t = "str"

\* C9: in every response of check_latex_syntax valid is true exactly when
\* errors is empty; blank input, more than MAX_LATEX_LENGTH characters, an
\* odd number of '$', an unsupported environment and a failed test render
\* each leave an entry in errors.
C9_ValidIffNoErrors ==
    (ToolRan /\ call.tool = "check_latex_syntax") =>
        LET latex == call.args.latex
        IN  /\ response.body.valid = (response.body.errors = <<>>)
            /\ ( \/ strip(latex) = <<>>
                 \/ PyLen(latex) > MAX_LATEX_LENGTH
                 \/ count(latex, "$") % 2 = 1
                 \/ \E i \in 1..Len(unsupported) : contains(latex, unsupported[i])
                 \/ render.raised )
               => response.body.errors # <<>>

\* '\frac' alone is accepted by the engine: a warning, no error, valid.
C9_Witness ==
    /\ call.tool = "check_latex_syntax"
    /\ call.args.latex = <<"\\frac">>
    /\ response.body.warnings # <<>>
    /\ response.body.errors = <<>>
    /\ response.body.valid = TRUE
====
